---- MODULE Spec2Model ----
(***************************************************************************)
(* Transport, cue scheduler, note-visual lifecycle and score cursor of the *)
(* score-reading app (ui/pianoroll.py, ui/score_view.py, ui/note_item.py,  *)
(* model/score_loader.py, config.py).                                      *)
(*                                                                         *)
(* Units.  The program computes in Python floats; the model computes in    *)
(* exact integers:                                                         *)
(*   - music time, note starts and durations: microseconds (Sec per        *)
(*     second), so that eps = 1e-6 s is one unit;                          *)
(*   - the wall clock: milliseconds, as QElapsedTimer.elapsed() returns;   *)
(*   - rates: multiples of 1/RateScale = 0.05, the step of the speed spin; *)
(*   - quarter lengths: whole quarters;                                    *)
(*   - vertical positions: 1/PxScale pixel.                                *)
(* A handler runs at one wall-clock instant: every clock.elapsed() read of *)
(* one handler returns the same value.  A frame is the exception: tick is  *)
(* also given the wall time at which it ends.                              *)
(***************************************************************************)
EXTENDS Integers, Sequences, FiniteSets, TLC

\* ---------------------------------------------------------------- units
Sec == 1000 * 1000
MsPerSec == 1000
RateScale == 20
PxScale == 100 * 100

\* ------------------------------------------------------------ config.py
SCROLL_SPEED == 100
FPS == 60
VIEW_HEIGHT == 800
FOOTER_HEIGHT == 24
AUDIO_LATENCY_MS == 0
VISUAL_PREROLL_S == (VIEW_HEIGHT * Sec) \div SCROLL_SPEED

\* music microseconds per (wall millisecond x rate unit)
UsPerRateMs == Sec \div (MsPerSec * RateScale)
\* position units travelled per microsecond of music time
YPerUs == (SCROLL_SPEED * PxScale) \div Sec

Max(a, b) == IF a >= b THEN a ELSE b
Min(a, b) == IF a <= b THEN a ELSE b

\* ------------------------------------------------- score-data provider
\* What the score parser hands over: tempo marks in iteration order
\* (offset in quarters, bpm), the score length, the notes in quarters in
\* the parser's order, the measures (number, start, notated bar length)
\* and the page each measure index is laid out on.
Note(p, s, d) == [pitch |-> p, start |-> s, duration |-> d, staff |-> 1]
Bar(n, s, d) == [number |-> n, start_ql |-> s, bar_ql |-> d]

\* Two tempi, two pages, a chord, notes out of order, a note that spans
\* the tempo change.
ScoreTwoTempi ==
    [marks |-> << <<0, 60>>, <<4, 120>> >>, highest_ql |-> 8,
     notes |-> << Note(64, 2, 2), Note(60, 0, 1), Note(67, 2, 3) >>,
     bars |-> << Bar(1, 0, 4), Bar(2, 4, 4) >>,
     index_to_page |-> << 0, 1 >>, page_count |-> 2]

\* No tempo mark at all, one page, a last bar that outlasts the score.
ScoreNoMarks ==
    [marks |-> << >>, highest_ql |-> 3,
     notes |-> << Note(62, 1, 1), Note(60, 0, 2) >>,
     bars |-> << Bar(1, 0, 2), Bar(2, 2, 2) >>,
     index_to_page |-> << 0, 0 >>, page_count |-> 1]

Scores == { ScoreTwoTempi, ScoreNoMarks }

\* ------------------------------------------- model/score_loader.py
\* fault: a later mark of an offset replaces the earlier one
RECURSIVE DedupMarks_LastWins(_, _)
DedupMarks_LastWins(marks, seen) ==
    IF marks = << >> THEN << >>
    ELSE IF \E k \in 2..Len(marks) : marks[k][1] = Head(marks)[1]
         THEN DedupMarks_LastWins(Tail(marks), seen)
         ELSE << Head(marks) >> \o DedupMarks_LastWins(Tail(marks), seen)

\* marks[key] = qpm only if key not in marks: the first mark of an offset wins
RECURSIVE DedupMarks(_, _)
DedupMarks(marks, seen) ==
    IF marks = << >> THEN << >>
    ELSE IF Head(marks)[1] \in seen THEN DedupMarks(Tail(marks), seen)
         ELSE << Head(marks) >> \o DedupMarks(Tail(marks), seen \cup { Head(marks)[1] })

\* sorted(marks.items(), key=offset): insertion into an ascending list
RECURSIVE InsertMark(_, _)
InsertMark(m, sorted) ==
    IF sorted = << >> THEN << m >>
    ELSE IF m[1] < Head(sorted)[1] THEN << m >> \o sorted
         ELSE << Head(sorted) >> \o InsertMark(m, Tail(sorted))

RECURSIVE SortMarks(_)
SortMarks(marks) ==
    IF marks = << >> THEN << >>
    ELSE InsertMark(marks[Len(marks)], SortMarks(SubSeq(marks, 1, Len(marks) - 1)))

TempoItems(marks) ==
    LET items == SortMarks(DedupMarks(marks, {}))
        items1 == IF items = << >> THEN << <<0, 60>> >> ELSE items
    IN IF items1[1][1] > 0 THEN << <<0, items1[1][2]>> >> \o items1 ELSE items1

\* seconds (in microseconds) of dur_q quarters at bpm: dur_q * 60.0 / bpm
QlSpan(dur_q, bpm) == (dur_q * 60 * Sec) \div bpm

\* fault: the seconds are not carried over to the next segment
RECURSIVE SegmentsFrom_Restart(_, _, _, _)
SegmentsFrom_Restart(items, i, t_sec, highest_ql) ==
    IF i > Len(items) THEN << >>
    ELSE LET off == items[i][1]
             bpm == items[i][2]
             next_off == IF i + 1 <= Len(items) THEN items[i + 1][1] ELSE highest_ql
             dur_q == Max(0, next_off - off)
             end_sec == t_sec + QlSpan(dur_q, bpm)
         IN << [start_ql |-> off, end_ql |-> next_off, bpm |-> bpm,
                start_sec |-> t_sec, end_sec |-> end_sec] >>
            \o SegmentsFrom_Restart(items, i + 1, 0, highest_ql)

RECURSIVE SegmentsFrom(_, _, _, _)
SegmentsFrom(items, i, t_sec, highest_ql) ==
    IF i > Len(items) THEN << >>
    ELSE LET off == items[i][1]
             bpm == items[i][2]
             next_off == IF i + 1 <= Len(items) THEN items[i + 1][1] ELSE highest_ql
             dur_q == Max(0, next_off - off)
             end_sec == t_sec + QlSpan(dur_q, bpm)
         IN << [start_ql |-> off, end_ql |-> next_off, bpm |-> bpm,
                start_sec |-> t_sec, end_sec |-> end_sec] >>
            \o SegmentsFrom(items, i + 1, end_sec, highest_ql)

build_tempo_segments(marks, highest_ql) ==
    SegmentsFrom(TempoItems(marks), 1, 0, highest_ql)

RECURSIVE BpmScan(_, _, _)
BpmScan(segs, i, sec) ==
    IF i > Len(segs) THEN (IF segs # << >> THEN segs[Len(segs)].bpm ELSE 60)
    ELSE IF segs[i].start_sec <= sec /\ sec < segs[i].end_sec THEN segs[i].bpm
         ELSE BpmScan(segs, i + 1, sec)

bpm_at_seconds(tempo_segments, sec) == BpmScan(tempo_segments, 1, sec)

\* fault: the seconds inside a segment are counted from the segment's start
RECURSIVE QlScan_NoStart(_, _, _)
QlScan_NoStart(segs, i, ql) ==
    IF i > Len(segs)
    THEN LET last == segs[Len(segs)]
         IN last.end_sec + QlSpan(ql - last.end_ql, last.bpm)
    ELSE IF segs[i].start_ql <= ql /\ ql < segs[i].end_ql
         THEN QlSpan(ql - segs[i].start_ql, segs[i].bpm)
         ELSE QlScan_NoStart(segs, i + 1, ql)

\* fault: no extrapolation past the last segment
RECURSIVE QlScan_Clamp(_, _, _)
QlScan_Clamp(segs, i, ql) ==
    IF i > Len(segs) THEN segs[Len(segs)].end_sec
    ELSE IF segs[i].start_ql <= ql /\ ql < segs[i].end_ql
         THEN segs[i].start_sec + QlSpan(ql - segs[i].start_ql, segs[i].bpm)
         ELSE QlScan_Clamp(segs, i + 1, ql)

RECURSIVE QlScan(_, _, _)
QlScan(segs, i, ql) ==
    IF i > Len(segs)
    THEN LET last == segs[Len(segs)]
         IN last.end_sec + QlSpan(ql - last.end_ql, last.bpm)
    ELSE IF segs[i].start_ql <= ql /\ ql < segs[i].end_ql
         THEN segs[i].start_sec + QlSpan(ql - segs[i].start_ql, segs[i].bpm)
         ELSE QlScan(segs, i + 1, ql)

ql_to_seconds(tempo_segments, ql) == QlScan(tempo_segments, 1, ql)

\* last = tempo_segments[-1] raises IndexError on an empty list
ql_to_seconds_raises(tempo_segments, ql) == tempo_segments = << >>

\* fault: the duration is converted in the first segment it touches only
RECURSIVE DurScan_OneSegment(_, _, _, _, _)
DurScan_OneSegment(segs, i, pos_ql, remaining, total_sec) ==
    IF i > Len(segs) THEN total_sec
    ELSE IF pos_ql >= segs[i].end_ql
         THEN DurScan_OneSegment(segs, i + 1, pos_ql, remaining, total_sec)
         ELSE QlSpan(Min(remaining, segs[i].end_ql - Max(pos_ql, segs[i].start_ql)),
                     segs[i].bpm)

RECURSIVE DurScan(_, _, _, _, _)
DurScan(segs, i, pos_ql, remaining, total_sec) ==
    IF i > Len(segs) THEN total_sec
    ELSE IF pos_ql >= segs[i].end_ql THEN DurScan(segs, i + 1, pos_ql, remaining, total_sec)
    ELSE LET pos == IF pos_ql < segs[i].start_ql THEN segs[i].start_ql ELSE pos_ql
         IN IF remaining <= 0 THEN total_sec
            ELSE LET take_ql == Min(remaining, segs[i].end_ql - pos)
                 IN DurScan(segs, i + 1, pos + take_ql, remaining - take_ql,
                            total_sec + QlSpan(take_ql, segs[i].bpm))

ql_duration_to_seconds(tempo_segments, start_ql, dur_ql) ==
    DurScan(tempo_segments, 1, start_ql, dur_ql, 0)

build_measure_times(bars, tempo_segments) ==
    [i \in 1..Len(bars) |->
        [number |-> bars[i].number,
         start_ql |-> bars[i].start_ql,
         end_ql |-> bars[i].start_ql + bars[i].bar_ql,
         start_sec |-> ql_to_seconds(tempo_segments, bars[i].start_ql),
         end_sec |-> ql_to_seconds(tempo_segments, bars[i].start_ql + bars[i].bar_ql)]]

\* ---------------------------------------- PianoRoll.__init__: the notes
NotesSec(notes, segs) ==
    [i \in 1..Len(notes) |->
        [pitch |-> notes[i].pitch,
         start |-> ql_to_seconds(segs, notes[i].start),
         duration |-> ql_duration_to_seconds(segs, notes[i].start, notes[i].duration),
         staff |-> notes[i].staff]]

\* sorted(notes_sec, key=start) is stable: a note goes after its equals
RECURSIVE InsertNote(_, _)
InsertNote(n, sorted) ==
    IF sorted = << >> THEN << n >>
    ELSE IF n.start < Head(sorted).start THEN << n >> \o sorted
         ELSE << Head(sorted) >> \o InsertNote(n, Tail(sorted))

RECURSIVE SortNotes(_)
SortNotes(notes) ==
    IF notes = << >> THEN << >>
    ELSE InsertNote(notes[Len(notes)], SortNotes(SubSeq(notes, 1, Len(notes) - 1)))

\* ------------------------------------------------------------- state
VARIABLES
    elapsed,            \* clock.elapsed(), wall milliseconds
    music_time_offset,  \* microseconds
    playback_rate,      \* 0 = paused, else rate * RateScale
    pre_pause_rate,     \* _pre_pause_rate
    speed_spin,         \* speed_spin.value()
    last_bpm_shown,     \* _last_bpm_shown, 0 for None
    score,              \* what the score parser handed over
    all_notes,          \* the time-sorted note list (seconds)
    tempo_segments,
    total_duration_sec,
    spawn_queue,        \* indices into all_notes
    audio_queue,        \* indices into all_notes
    active_items,       \* the NoteItems on the scene
    measures,           \* ScoreView.measures
    index_to_page,      \* ScoreView._index_to_page, by measure index + 1
    page_count,
    html_ready,         \* ScoreView._html_ready
    current_page,       \* ScoreView._current_page
    pending_sec,        \* ScoreView._pending_sec, << >> for None
    loading,            \* a web.load() whose loadFinished is still to come
    cursor,             \* arguments of the last jsSetCursorAbs, << >> for none
    player,             \* MidiPlayer: the synth's keys and the note-off timers
    call,               \* history: the handler that ran last
    pass,               \* history: what was emitted since the start or the last seek
    frame,              \* history: what the last tick did, in order
    pause_run,          \* history: the ticks of the current paused stretch
    memo,               \* history: what the last transport mutations set up
    inputs              \* history: how many user inputs have arrived

rollVars == << music_time_offset, playback_rate, pre_pause_rate, speed_spin,
               last_bpm_shown, spawn_queue, audio_queue, active_items >>
scoreVars == << score, all_notes, tempo_segments, total_duration_sec, measures,
                index_to_page, page_count >>
viewVars == << html_ready, current_page, pending_sec, loading, cursor >>
histVars == << call, pass, frame, pause_run, memo, inputs >>
vars == << elapsed, rollVars, scoreVars, viewVars, player, histVars >>

\* The PianoRoll fields a handler reads and writes, as one record.
self ==
    [music_time_offset |-> music_time_offset, playback_rate |-> playback_rate,
     pre_pause_rate |-> pre_pause_rate, speed_spin |-> speed_spin,
     last_bpm_shown |-> last_bpm_shown, spawn_queue |-> spawn_queue,
     audio_queue |-> audio_queue, active_items |-> active_items]

Assign(s) ==
    /\ music_time_offset' = s.music_time_offset
    /\ playback_rate' = s.playback_rate
    /\ pre_pause_rate' = s.pre_pause_rate
    /\ speed_spin' = s.speed_spin
    /\ last_bpm_shown' = s.last_bpm_shown
    /\ spawn_queue' = s.spawn_queue
    /\ audio_queue' = s.audio_queue
    /\ active_items' = s.active_items

\* ScoreView's fields, as one record; drawn: the handler has called
\* jsSetCursorAbs
view ==
    [html_ready |-> html_ready, current_page |-> current_page,
     pending_sec |-> pending_sec, loading |-> loading, cursor |-> cursor,
     drawn |-> FALSE]

AssignView(v) ==
    /\ html_ready' = v.html_ready
    /\ current_page' = v.current_page
    /\ pending_sec' = v.pending_sec
    /\ loading' = v.loading
    /\ cursor' = v.cursor

\* ------------------------------------------- PianoRoll: time mapping
MinRate == 5
MaxRate == 40
DefaultRate == 20
eps == 1
step_seconds == 5 * Sec

\* fault: wall_s + offset, music time runs on while paused
current_music_time_NoRate(el, rate, offset) == el * RateScale * UsPerRateMs + offset

\* wall_s * rate + offset, wall_s = elapsed / 1000.0
current_music_time(el, rate, offset) == el * rate * UsPerRateMs + offset

Now == current_music_time(elapsed, playback_rate, music_time_offset)

\* fault: the upper clamp is missing
ClampRate_NoUpper(new_rate) ==
    IF new_rate = 0 THEN 0 ELSE Max(MinRate, new_rate)

\* 0 stays 0 (pause); anything else is clamped into [0.25, 2.0]
ClampRate(new_rate) ==
    IF new_rate = 0 THEN 0 ELSE Min(MaxRate, Max(MinRate, new_rate))

\* QDoubleSpinBox keeps its value inside setRange(0.25, 2.00)
SpinClamp(v) == Min(MaxRate, Max(MinRate, v))

\* python's `x or 1.0`
OrDefault(x) == IF x = 0 THEN DefaultRate ELSE x

update_bpm_label(s, music_now_sec) ==
    [s EXCEPT !.last_bpm_shown = bpm_at_seconds(tempo_segments, music_now_sec)]

\* fault: music_now - wall_s, the rate forgotten
RateOffset_NoRate(el, music_now, rate) == music_now - el * RateScale * UsPerRateMs

\* music_now - wall_s * rate: the offset that keeps music time where it is
RateOffset(el, music_now, rate) == music_now - el * rate * UsPerRateMs

\* fault: music_now is read after the new rate is stored, so the offset stays
set_playback_rate_late(s, el, new_rate) ==
    LET rate == ClampRate(new_rate)
        music_now == current_music_time(el, rate, s.music_time_offset)
        s1 == [s EXCEPT !.playback_rate = rate,
                        !.music_time_offset = RateOffset(el, music_now, rate),
                        !.speed_spin = IF rate # 0 /\ @ # rate THEN rate ELSE @]
    IN update_bpm_label(s1,
           current_music_time(el, s1.playback_rate, s1.music_time_offset))

\* fault: a rate change also clears the visuals
set_playback_rate_Flush(s, el, new_rate) ==
    LET music_now == current_music_time(el, s.playback_rate, s.music_time_offset)
        rate == ClampRate(new_rate)
        s1 == [s EXCEPT !.playback_rate = rate,
                        !.music_time_offset = RateOffset(el, music_now, rate),
                        !.speed_spin = IF rate # 0 /\ @ # rate THEN rate ELSE @,
                        !.active_items = << >>]
    IN update_bpm_label(s1,
           current_music_time(el, s1.playback_rate, s1.music_time_offset))

set_playback_rate(s, el, new_rate) ==
    LET music_now == current_music_time(el, s.playback_rate, s.music_time_offset)
        rate == ClampRate(new_rate)
        s1 == [s EXCEPT !.playback_rate = rate,
                        !.music_time_offset = RateOffset(el, music_now, rate),
                        !.speed_spin = IF rate # 0 /\ @ # rate THEN rate ELSE @]
    IN update_bpm_label(s1,
           current_music_time(el, s1.playback_rate, s1.music_time_offset))

\* fault: a speed change while paused resumes playback
on_speed_changed_Resume(s, el, new_rate) == set_playback_rate(s, el, new_rate)

on_speed_changed(s, el, new_rate) ==
    IF s.playback_rate = 0
    THEN update_bpm_label([s EXCEPT !.pre_pause_rate = new_rate],
             current_music_time(el, s.playback_rate, s.music_time_offset))
    ELSE set_playback_rate(s, el, new_rate)

\* fault: pausing does not store the rate it pauses at
on_toggle_pause_Forget(s, el) ==
    IF s.playback_rate = 0
    THEN set_playback_rate(s, el, OrDefault(s.pre_pause_rate))
    ELSE set_playback_rate(s, el, 0)

on_toggle_pause(s, el) ==
    IF s.playback_rate = 0
    THEN set_playback_rate(s, el, OrDefault(s.pre_pause_rate))
    ELSE set_playback_rate([s EXCEPT !.pre_pause_rate = s.playback_rate], el, 0)

\* ------------------------------------------------- PianoRoll: seeking
travel_time ==
    (((VIEW_HEIGHT + FOOTER_HEIGHT) - FOOTER_HEIGHT - 100) * Sec) \div SCROLL_SPEED

SeekClamp(new_music_now) == Max(-VISUAL_PREROLL_S, new_music_now)

\* fault: new_music_now - wall_s, the rate forgotten
SeekOffset_NoRate(el, rate, new_music_now) == new_music_now - el * RateScale * UsPerRateMs

\* new_music_now - wall_s * rate
SeekOffset(el, rate, new_music_now) == new_music_now - el * rate * UsPerRateMs

AudioKept(i, new_music_now) == all_notes[i].start >= new_music_now - eps
SpawnKept(i, new_music_now) == all_notes[i].start - travel_time >= new_music_now - eps

\* deque(n for n in all_notes if ...): a scan of the whole list
RECURSIVE AudioFrom(_, _)
AudioFrom(i, new_music_now) ==
    IF i > Len(all_notes) THEN << >>
    ELSE (IF AudioKept(i, new_music_now) THEN << i >> ELSE << >>)
         \o AudioFrom(i + 1, new_music_now)

RECURSIVE SpawnFrom(_, _)
SpawnFrom(i, new_music_now) ==
    IF i > Len(all_notes) THEN << >>
    ELSE (IF SpawnKept(i, new_music_now) THEN << i >> ELSE << >>)
         \o SpawnFrom(i + 1, new_music_now)

\* fault: the queue is patched, the notes already consumed are not put back
RebuildAudio_Patch(new_music_now) ==
    LET Kept(i) == AudioKept(i, new_music_now) IN SelectSeq(audio_queue, Kept)

\* fault: the kept notes are appended to what is still queued
RebuildSpawn_Append(new_music_now) == spawn_queue \o SpawnFrom(1, new_music_now)

RebuildAudio(new_music_now) == AudioFrom(1, new_music_now)
RebuildSpawn(new_music_now) == SpawnFrom(1, new_music_now)

\* fault: half a seek, the offset is moved but queues and visuals are left
seek_to_OffsetOnly(s, el, target) ==
    [s EXCEPT !.music_time_offset = SeekOffset(el, s.playback_rate, SeekClamp(target))]

seek_to(s, el, target) ==
    LET new_music_now == SeekClamp(target)
        s1 == [s EXCEPT !.music_time_offset = SeekOffset(el, s.playback_rate, new_music_now),
                        !.active_items = << >>,
                        !.audio_queue = RebuildAudio(new_music_now),
                        !.spawn_queue = RebuildSpawn(new_music_now)]
    IN update_bpm_label(s1, new_music_now)

seek_by(s, el, delta_sec) ==
    seek_to(s, el, current_music_time(el, s.playback_rate, s.music_time_offset) + delta_sec)

\* fault: stop goes to the start and keeps playing
on_stop_NoPause(s, el) ==
    LET s1 == seek_to(s, el, -VISUAL_PREROLL_S)
    IN [s1 EXCEPT !.pre_pause_rate = Max(MinRate, s1.speed_spin)]

on_stop(s, el) ==
    LET s1 == seek_to(s, el, -VISUAL_PREROLL_S)
    IN set_playback_rate([s1 EXCEPT !.pre_pause_rate = Max(MinRate, s1.speed_spin)], el, 0)

on_restart(s, el) ==
    LET s1 == on_stop(s, el)
    IN set_playback_rate(s1, el, OrDefault(s1.pre_pause_rate))

\* ------------------------------------------------ ScoreView (cursor)
None == << >>

\* fault: the index the search ends on is returned unclamped
RECURSIVE MeasureSearch_NoClamp(_, _, _)
MeasureSearch_NoClamp(lo, hi, sec) ==
    IF lo <= hi
    THEN LET mid == (lo + hi) \div 2
             m == measures[mid + 1]
         IN IF sec < m.start_sec THEN MeasureSearch_NoClamp(lo, mid - 1, sec)
            ELSE IF sec >= m.end_sec THEN MeasureSearch_NoClamp(mid + 1, hi, sec)
            ELSE mid
    ELSE lo

\* binary search on [start_sec, end_sec), 0-based indices as in the code
RECURSIVE MeasureSearch(_, _, _)
MeasureSearch(lo, hi, sec) ==
    IF lo <= hi
    THEN LET mid == (lo + hi) \div 2
             m == measures[mid + 1]
         IN IF sec < m.start_sec THEN MeasureSearch(lo, mid - 1, sec)
            ELSE IF sec >= m.end_sec THEN MeasureSearch(mid + 1, hi, sec)
            ELSE mid
    ELSE Max(0, Min(Len(measures) - 1, lo))

measure_for_time(sec) == MeasureSearch(0, Len(measures) - 1, sec)

\* _index_to_page.get(abs_idx, 0)
page_for_index(abs_idx) ==
    IF abs_idx + 1 \in DOMAIN index_to_page THEN index_to_page[abs_idx + 1] ELSE 0

load_page(v, page) ==
    [v EXCEPT !.html_ready = FALSE,
              !.current_page = Max(0, Min(page_count - 1, page)),
              !.loading = TRUE]

\* (measure index, time into the measure, measure length) of jsSetCursorAbs
CursorArgs(sec) ==
    LET m_idx == measure_for_time(sec)
        m == measures[m_idx + 1]
    IN << m_idx, Max(0, sec - m.start_sec), Max(eps, m.end_sec - m.start_sec) >>

apply_time(v, sec) ==
    IF measures = << >> THEN v
    ELSE LET page == page_for_index(measure_for_time(sec))
         IN IF page # v.current_page
            THEN load_page([v EXCEPT !.pending_sec = << sec >>], page)
            ELSE [v EXCEPT !.cursor = CursorArgs(sec), !.drawn = TRUE]

\* fault: the time is applied whether or not the page has finished loading
set_music_time_NoWait(v, sec) == apply_time(v, sec)

set_music_time(v, sec) ==
    IF ~v.html_ready THEN [v EXCEPT !.pending_sec = << sec >>]
    ELSE apply_time(v, sec)

\* fault: the callback marks the page ready and forgets the pending time
on_loaded_Drop(v) ==
    [v EXCEPT !.html_ready = TRUE, !.loading = FALSE, !.pending_sec = None]

\* the loadFinished callback of _load_page
on_loaded(v) ==
    LET v1 == [v EXCEPT !.html_ready = TRUE, !.loading = FALSE]
    IN IF v1.pending_sec # None
       THEN apply_time([v1 EXCEPT !.pending_sec = None], v1.pending_sec[1])
       ELSE v1

\* CursorMapper: music time -> (measure index, intra-measure time, page)
CursorPosition(sec) ==
    IF measures = << >> THEN None
    ELSE LET m_idx == measure_for_time(sec)
         IN << m_idx, Max(0, sec - measures[m_idx + 1].start_sec), page_for_index(m_idx) >>

\* --------------------------------------------------- NoteItem, frames
Event(kind, note, val) == [kind |-> kind, note |-> note, val |-> val]
\* the places of the events of one kind in a frame
Kinds(events, kind) == { k \in 1..Len(events) : events[k].kind = kind }

\* fault: the travel since the spawn is added to the position of the last frame
update_position_Drift(item, music_now) ==
    [item EXCEPT !.y = @ + Max(0, music_now - item.spawn_time_music) * YPerUs]

\* NoteItem.update_position
update_position(item, music_now) ==
    LET t == Max(0, music_now - item.spawn_time_music)
    IN [item EXCEPT !.y = item.initial_y + t * YPerUs]

\* fault: a strict comparison, a note due exactly now waits for the next tick
RECURSIVE AudioDue_Strict(_, _)
AudioDue_Strict(queue, audio_now) ==
    IF queue # << >> /\ all_notes[Head(queue)].start < audio_now
    THEN 1 + AudioDue_Strict(Tail(queue), audio_now)
    ELSE 0

\* fault: a look-ahead, a note is played a second before it is due
RECURSIVE AudioDue_Early(_, _)
AudioDue_Early(queue, audio_now) ==
    IF queue # << >> /\ all_notes[Head(queue)].start <= audio_now + Sec
    THEN 1 + AudioDue_Early(Tail(queue), audio_now)
    ELSE 0

\* how many heads of the audio queue are due: start <= audio_now + 1e-6
RECURSIVE AudioDue(_, _)
AudioDue(queue, audio_now) ==
    IF queue # << >> /\ all_notes[Head(queue)].start <= audio_now + eps
    THEN 1 + AudioDue(Tail(queue), audio_now)
    ELSE 0

\* how many heads of the spawn queue are due: not (music_now + 1e-6 < spawn time)
\* fault: a tick pops one due head and leaves the others for later ticks
SpawnDue_One(queue, music_now) ==
    IF queue # << >> /\ ~(music_now + eps < all_notes[Head(queue)].start - travel_time)
    THEN 1
    ELSE 0

RECURSIVE SpawnDue(_, _)
SpawnDue(queue, music_now) ==
    IF queue # << >> /\ ~(music_now + eps < all_notes[Head(queue)].start - travel_time)
    THEN 1 + SpawnDue(Tail(queue), music_now)
    ELSE 0

\* AUDIO_LATENCY_MS / 1000.0
AudioLatency == AUDIO_LATENCY_MS * (Sec \div MsPerSec)

\* fault: the due notes are played but stay queued
AudioRest_NoPop(queue, rate, music_now) == queue

\* fault: the queue is drained while paused as well
AudioRest_Paused(queue, rate, music_now) ==
    SubSeq(queue, AudioDue(queue, music_now + AudioLatency) + 1, Len(queue))

\* the audio queue after the drain; nothing is drained while paused
AudioRest(queue, rate, music_now) ==
    IF rate = 0 THEN queue
    ELSE SubSeq(queue, AudioDue(queue, music_now + AudioLatency) + 1, Len(queue))

\* the notes the drain plays, in order
AudioPlayed(queue, rate, music_now) ==
    IF rate = 0 THEN << >>
    ELSE SubSeq(queue, 1, AudioDue(queue, music_now + AudioLatency))

\* fault: the duration is requested in music seconds, whatever the rate
DurWall_NoRate(duration, rate) == Max(0, duration)

\* max(0.0, duration / max(rate, 1e-6)); a non-zero rate is at least 0.25
DurWall(duration, rate) == Max(0, (duration * RateScale) \div rate)

SpawnRest(queue, music_now) == SubSeq(queue, SpawnDue(queue, music_now) + 1, Len(queue))
SpawnPopped(queue, music_now) == SubSeq(queue, 1, SpawnDue(queue, music_now))

\* the NoteItem built for note i; its rect starts at initial_y = -bar_height
\* fault: the bar is created with its upper edge at the top of the scene
NewItem_TopEdge(i) ==
    [note |-> i, spawn_time_music |-> all_notes[i].start - travel_time,
     initial_y |-> 0, y |-> 0]

\* scene.height() - FOOTER_HEIGHT - 100: the upper edge of the key bed
target_y == ((VIEW_HEIGHT + FOOTER_HEIGHT) - FOOTER_HEIGHT - 100) * PxScale

NewItem(i) ==
    LET bar_height == all_notes[i].duration * YPerUs
    IN [note |-> i, spawn_time_music |-> all_notes[i].start - travel_time,
        initial_y |-> -bar_height, y |-> -bar_height]

cutoff_y == (VIEW_HEIGHT + FOOTER_HEIGHT) * PxScale

\* fault: no bar ever counts as having left the scene
Expired_Never(item) == FALSE

Expired(item) == item.y > cutoff_y
Alive(item) == ~Expired(item)

\* fault: expired visuals are found but stay in the list
collect_garbage_Keep(items) == items

\* _collect_garbage
collect_garbage(items) == SelectSeq(items, Alive)

\* PianoRoll.tick, without the musicTimeChanged emit
tick(s, el) ==
    LET music_now == current_music_time(el, s.playback_rate, s.music_time_offset)
        s1 == update_bpm_label(s, music_now)
        s2 == [s1 EXCEPT !.audio_queue = AudioRest(@, s.playback_rate, music_now)]
        popped == SpawnPopped(s2.spawn_queue, music_now)
        s3 == [s2 EXCEPT !.spawn_queue = SpawnRest(@, music_now),
                         !.active_items = @ \o [k \in 1..Len(popped) |-> NewItem(popped[k])]]
        s4 == [s3 EXCEPT !.active_items =
                   [k \in 1..Len(@) |-> update_position(@[k], music_now)]]
    IN [s4 EXCEPT !.active_items = collect_garbage(@)]

\* tick when play_note raises for the k-th due note: the note has been popped,
\* the exception leaves _trigger_audio_onsets and tick, the rest of the frame
\* does not run
tick_fails(s, el, k) ==
    LET music_now == current_music_time(el, s.playback_rate, s.music_time_offset)
        s1 == update_bpm_label(s, music_now)
    IN [s1 EXCEPT !.audio_queue = SubSeq(@, k + 1, Len(@))]

\* the calls the failing frame has made when the exception leaves it
FailedFrameEvents(s, el, k) ==
    LET music_now == current_music_time(el, s.playback_rate, s.music_time_offset)
    IN << Event("now", 0, music_now) >>
       \o [j \in 1..(k - 1) |->
              Event("audio", s.audio_queue[j],
                    DurWall(all_notes[s.audio_queue[j]].duration, s.playback_rate))]
       \o << Event("audio_failed", s.audio_queue[k], 0) >>

\* fault: the visuals are spawned and moved before the audio is triggered
FrameEvents_VisualsFirst(now_ev, audio_ev, spawn_ev, position_ev, cursor_ev, release_ev) ==
    now_ev \o spawn_ev \o position_ev \o audio_ev \o cursor_ev \o release_ev

\* the calls tick makes on its collaborators, in the order it makes them:
\* current_music_time, play_note, addItem/on_spawn, update_position,
\* musicTimeChanged.emit, then the removeItem calls of _collect_garbage
FrameEvents(now_ev, audio_ev, spawn_ev, position_ev, cursor_ev, release_ev) ==
    now_ev \o audio_ev \o spawn_ev \o position_ev \o cursor_ev \o release_ev

\* fault: the time handed to the score view is read again, at the end of the frame
musicTimeChanged_Reread(s, el_end, music_now) ==
    current_music_time(el_end, s.playback_rate, s.music_time_offset)

\* musicTimeChanged.emit(music_now): the value read at the start of the frame
musicTimeChanged(s, el_end, music_now) == music_now

\* what tick does, step by step, in the order of the code; the frame starts
\* at wall time el and ends at el_end
FrameOf(s, el, el_end) ==
    LET music_now == current_music_time(el, s.playback_rate, s.music_time_offset)
        played == AudioPlayed(s.audio_queue, s.playback_rate, music_now)
        popped == SpawnPopped(s.spawn_queue, music_now)
        before == s.active_items \o [k \in 1..Len(popped) |-> NewItem(popped[k])]
        after == [k \in 1..Len(before) |-> update_position(before[k], music_now)]
        gone == SelectSeq(after, Expired)
    IN [now |-> music_now,
        rate |-> s.playback_rate,
        emitted |-> musicTimeChanged(s, el_end, music_now),
        moved |-> { before[k].note : k \in { j \in 1..Len(before) : before[j].y # after[j].y } },
        events |->
            FrameEvents(
                << Event("now", 0, music_now) >>,
                [k \in 1..Len(played) |->
                    Event("audio", played[k], DurWall(all_notes[played[k]].duration, s.playback_rate))],
                [k \in 1..Len(popped) |-> Event("spawn", popped[k], 0)],
                [k \in 1..Len(after) |-> Event("position", after[k].note, after[k].y)],
                << Event("cursor", 0, musicTimeChanged(s, el_end, music_now)) >>,
                [k \in 1..Len(gone) |-> Event("release", gone[k].note, 0)])]

\* ------------------------------------------------------------ bounds
MaxWallSteps == 3
MaxSeekS == 8
MaxInputs == 3
\* the frame timer's interval, int(1000 / FPS)
FrameMs == MsPerSec \div FPS
\* how long a frame takes to run: it ends before the next one is due
FrameCosts == { FrameMs - 1 }
WallStepMs == 2 * MsPerSec
WallSteps == { WallStepMs }
RateRequests == { 0, 2, 3 * RateScale }
SpinRequests == { RateScale, 3 * RateScale }
\* eps before the spawn time of a note, eps after the start of a note, past the end
SeekRequests == { -(5 * Sec) - eps, Sec + eps, 7 * Sec }

\* ----------------------------------------------------------- history
CallRec(name, arg) ==
    [name |-> name, arg |-> arg, wall |-> elapsed, now_before |-> Now,
     rate_before |-> playback_rate, again |-> None]

\* an exception that leaves a slot ends the application (PyQt6 calls qFatal
\* when no excepthook is installed, and app.py installs none)
Running == call.name # "tick_failed"

\* on: the note sounding on each key (<< >> for none); timers: the single-shot
\* timers started so far; notes: history, one record per play_note in call
\* order, off: when and by whose timer the note was silenced
NoPlayer == [on |-> << >>, timers |-> {}, notes |-> << >>]

\* count: the paused ticks so far (2 for more); now: the music time of the
\* first of them; shown: the displayed cursor and page after the second;
\* mark: the wall time and music time at which the transport was paused
NoRun == [count |-> 0, now |-> 0, mark |-> None, shown |-> None]

\* the paused stretch after a handler that left the PianoRoll as s1 and the
\* ScoreView as v1
RunAfter(kind, s1, v1) ==
    IF kind = "seek" THEN NoRun
    ELSE IF s1.playback_rate # 0
    THEN [NoRun EXCEPT !.mark =
             IF kind = "rate" /\ playback_rate = 0 THEN pause_run.mark ELSE None]
    ELSE IF kind = "tick"
    THEN [pause_run EXCEPT !.count = Min(2, @ + 1),
                           !.now = IF pause_run.count = 0 THEN Now ELSE @,
                           !.shown = IF pause_run.count = 1
                                     THEN << v1.cursor, v1.current_page >> ELSE @]
    ELSE IF kind = "pause" /\ (playback_rate # 0 \/ pause_run.mark = None)
    THEN [pause_run EXCEPT !.mark = << elapsed, Now >>]
    ELSE pause_run

\* before: what the pass before had emitted, kept when the seek goes to the
\* music time of a tick that has just run at the same wall time
NoBefore == [audio |-> {}, spawn |-> {}]

NewPass(s1, seeked) ==
    [seeked |-> seeked, audio0 |-> s1.audio_queue, spawn0 |-> s1.spawn_queue,
     audio |-> << >>, spawn |-> << >>, released |-> {},
     last_now |-> None, last_playing_now |-> None, before |-> NoBefore]

EmittedBefore(target) ==
    IF call.name = "tick" /\ call.wall = elapsed /\ frame.now = SeekClamp(target)
    THEN [audio |-> { pass.audio[k] : k \in 1..Len(pass.audio) },
          spawn |-> { pass.spawn[k] : k \in 1..Len(pass.spawn) }]
    ELSE NoBefore

\* after: the handler that ran just before the frame; emitted: the music time
\* handed to the score view; drawn: a cursor position went out to the page;
\* released_before: the notes whose visual of this pass was released earlier;
\* pending_before: the pending time a page load found when it finished
NoFrame ==
    [now |-> 0, rate |-> 0, moved |-> {}, events |-> << >>, audio_before |-> << >>,
     emitted |-> 0, after |-> None, drawn |-> FALSE, released_before |-> {},
     spawn_before |-> << >>, pending_before |-> None]

SeekNames == { "seek", "forward", "rewind", "stop", "restart" }

\* ramp: the in-range negative music time t a seek went to, the non-zero rate r
\* set right after it and the wall time of the two, while no later handler has
\* touched the transport; paused_at: the rate at which toggle_pause paused,
\* while no speed change, stop or set_rate has come in between; asked: the
\* speed asked for while paused, through the seeks and the resume that follow
NoMemo == [ramp |-> None, paused_at |-> None, asked |-> None]

MemoAfter(name, arg, s1) ==
    [ramp |->
         IF name = "restart"
         THEN << [t |-> -VISUAL_PREROLL_S, r |-> s1.playback_rate, wall |-> elapsed] >>
         ELSE IF /\ name = "set_rate" /\ s1.playback_rate # 0
                 /\ call.name \in SeekNames /\ call.wall = elapsed
                 /\ -VISUAL_PREROLL_S <= call.arg /\ call.arg < 0
         THEN << [t |-> call.arg, r |-> s1.playback_rate, wall |-> elapsed] >>
         ELSE None,
     paused_at |->
         IF name = "toggle_pause"
         THEN (IF playback_rate # 0 THEN << playback_rate >> ELSE memo.paused_at)
         ELSE IF \/ name \in { "speed", "stop", "restart" }
                 \/ name = "set_rate" /\ (playback_rate # 0 \/ s1.playback_rate # 0)
         THEN None
         ELSE memo.paused_at,
     asked |->
         IF playback_rate # 0 THEN None
         ELSE IF name = "speed" THEN << arg >>
         ELSE IF \/ name \in { "seek", "forward", "rewind", "toggle_pause" }
                 \/ name = "set_rate" /\ s1.playback_rate = 0
         THEN memo.asked
         ELSE None]

\* -------------------------------------------------------------- init
Init ==
    \E sc \in Scores :
        LET segs == build_tempo_segments(sc.marks, sc.highest_ql)
            notes == SortNotes(NotesSec(sc.notes, segs))
        IN /\ elapsed = 0
           /\ music_time_offset = -VISUAL_PREROLL_S
           /\ playback_rate = DefaultRate
           /\ pre_pause_rate = DefaultRate
           /\ speed_spin = DefaultRate
           /\ last_bpm_shown = bpm_at_seconds(segs, 0)
           /\ score = sc
           /\ all_notes = notes
           /\ tempo_segments = segs
           /\ total_duration_sec = IF segs # << >> THEN segs[Len(segs)].end_sec ELSE 0
           /\ spawn_queue = [i \in 1..Len(notes) |-> i]
           /\ audio_queue = [i \in 1..Len(notes) |-> i]
           /\ active_items = << >>
           /\ measures = build_measure_times(sc.bars, segs)
           /\ index_to_page = sc.index_to_page
           /\ page_count = sc.page_count
           /\ html_ready = FALSE
           /\ current_page = 0
           /\ pending_sec = None
           /\ loading = TRUE
           /\ cursor = None
           /\ player = NoPlayer
           /\ call = [name |-> "init", arg |-> 0, wall |-> 0,
                      now_before |-> -VISUAL_PREROLL_S, rate_before |-> DefaultRate,
                      again |-> None]
           /\ pass = [seeked |-> FALSE,
                      audio0 |-> [i \in 1..Len(notes) |-> i],
                      spawn0 |-> [i \in 1..Len(notes) |-> i],
                      audio |-> << >>, spawn |-> << >>, released |-> {},
                      last_now |-> None, last_playing_now |-> None,
                      before |-> NoBefore]
           /\ frame = NoFrame
           /\ pause_run = NoRun
           /\ memo = NoMemo
           /\ inputs = 0

\* ----------------------------------------------------------- actions
\* the wall clock runs on between handlers; loading a local page takes less
\* than one step of it
AdvanceClock ==
    \E d \in WallSteps :
        /\ Running
        /\ elapsed + d <= MaxWallSteps * WallStepMs
        /\ ~loading
        /\ elapsed' = elapsed + d
        /\ call' = [name |-> "clock", arg |-> d, wall |-> elapsed + d,
                    now_before |-> current_music_time(elapsed + d, playback_rate, music_time_offset),
                    rate_before |-> playback_rate, again |-> None]
        /\ pause_run' = RunAfter("other", self, view)
        /\ frame' = NoFrame
        /\ UNCHANGED << rollVars, scoreVars, player, viewVars, pass, memo, inputs >>

\* the frame timer fires: tick, then musicTimeChanged -> ScoreView.set_music_time
Tick ==
    /\ Running
    /\ \E cost \in FrameCosts :
       \E f \in { FrameOf(self, elapsed, elapsed + cost) } :
       \E s1 \in { tick(self, elapsed) } :
       \E v1 \in { set_music_time(view, f.emitted) } :
          /\ Assign(s1)
          /\ AssignView(v1)
          /\ frame' = [now |-> f.now, rate |-> f.rate, moved |-> f.moved,
                       events |-> f.events, audio_before |-> audio_queue,
                       emitted |-> f.emitted, after |-> << call >>, drawn |-> v1.drawn,
                       released_before |-> pass.released, spawn_before |-> spawn_queue,
                       pending_before |-> None]
          /\ pass' = [pass EXCEPT
                 !.audio = @ \o AudioPlayed(audio_queue, playback_rate, f.now),
                 !.spawn = @ \o SpawnPopped(spawn_queue, f.now),
                 !.released = @ \cup { f.events[k].note : k \in Kinds(f.events, "release") },
                 !.last_now = << f.now >>,
                 !.last_playing_now = IF playback_rate # 0 THEN << f.now >> ELSE @]
          /\ call' = CallRec("tick", 0)
          /\ pause_run' = RunAfter("tick", s1, v1)
          /\ UNCHANGED << elapsed, scoreVars, player, memo, inputs >>

\* the frame timer fires and the audio collaborator raises for the k-th of
\* the notes that are due
TickAudioFails ==
    /\ Running
    /\ playback_rate # 0
    /\ \E k \in 1..AudioDue(audio_queue, Now + AudioLatency) :
         /\ Assign(tick_fails(self, elapsed, k))
         /\ frame' = [NoFrame EXCEPT !.now = Now, !.rate = playback_rate,
                                     !.events = FailedFrameEvents(self, elapsed, k),
                                     !.audio_before = audio_queue,
                                     !.spawn_before = spawn_queue,
                                     !.after = << call >>]
         /\ call' = CallRec("tick_failed", k)
    /\ UNCHANGED << elapsed, scoreVars, player, viewVars, pass, pause_run, memo, inputs >>

\* the page load of the score view finishes
PageLoaded ==
    /\ Running
    /\ loading
    /\ \E v1 \in { on_loaded(view) } :
         /\ AssignView(v1)
         /\ frame' = [NoFrame EXCEPT !.drawn = v1.drawn, !.pending_before = pending_sec]
    /\ call' = CallRec("loaded", 0)
    /\ pause_run' = RunAfter("other", self, view)
    /\ UNCHANGED << elapsed, rollVars, scoreVars, player, pass, memo, inputs >>

Transport(name, arg, kind, s1) ==
    /\ Running
    /\ inputs < MaxInputs
    /\ inputs' = inputs + 1
    /\ frame' = NoFrame
    /\ Assign(s1)
    /\ call' = CallRec(name, arg)
    /\ pause_run' = RunAfter(kind, s1, view)
    /\ memo' = MemoAfter(name, arg, s1)
    /\ UNCHANGED << elapsed, scoreVars, player, viewVars, pass >>

SetRate ==
    \E r \in RateRequests :
        Transport("set_rate", r, IF r = 0 THEN "pause" ELSE "rate",
                  set_playback_rate(self, elapsed, r))

\* the user edits the speed spin; valueChanged fires when the value changes
SpeedChanged ==
    \E v \in SpinRequests :
        /\ SpinClamp(v) # speed_spin
        /\ Transport("speed", v, "rate",
               on_speed_changed([self EXCEPT !.speed_spin = SpinClamp(v)], elapsed, SpinClamp(v)))

TogglePause ==
    Transport("toggle_pause", 0, IF playback_rate = 0 THEN "rate" ELSE "pause",
              on_toggle_pause(self, elapsed))

\* a handler that seeks; the history keeps the requested music time
Seeked(name, target, s1) ==
    /\ Running
    /\ inputs < MaxInputs
    /\ inputs' = inputs + 1
    /\ frame' = NoFrame
    /\ Assign(s1)
    /\ call' = [CallRec(name, target) EXCEPT
           !.again = IF call.name = name /\ call.arg = target /\ call.wall = elapsed
                     THEN << self >> ELSE None]
    /\ pause_run' = RunAfter("seek", s1, view)
    /\ memo' = MemoAfter(name, target, s1)
    /\ pass' = [NewPass(s1, TRUE) EXCEPT !.before = EmittedBefore(target)]
    /\ UNCHANGED << elapsed, scoreVars, player, viewVars >>

SeekTo ==
    \E t \in SeekRequests : Seeked("seek", t, seek_to(self, elapsed, t))

Forward ==
    /\ Now + step_seconds <= MaxSeekS * Sec
    /\ Seeked("forward", Now + step_seconds, seek_by(self, elapsed, step_seconds))

Rewind ==
    Seeked("rewind", Now - step_seconds, seek_by(self, elapsed, -step_seconds))

Stop ==
    Seeked("stop", -VISUAL_PREROLL_S, on_stop(self, elapsed))

Restart ==
    Seeked("restart", -VISUAL_PREROLL_S, on_restart(self, elapsed))

Next ==
    \/ AdvanceClock
    \/ Tick
    \/ TickAudioFails
    \/ PageLoaded
    \/ SetRate
    \/ SpeedChanged
    \/ TogglePause
    \/ SeekTo
    \/ Forward
    \/ Rewind
    \/ Stop
    \/ Restart

Spec == Init /\ [][Next]_vars

\* ============================================ playback that goes on
\* The frame timer keeps firing and the wall clock keeps running; the user
\* makes at most MaxLiveInputs inputs. Time is stepped while there is
\* something to wait for: while playing, until the music time is a whole
\* pre-roll past the end of the score; while paused, for MaxWallSteps steps.
\* The audio collaborator does not raise here.
MaxLiveInputs == 1
LiveStepMs == 2 * WallStepMs
LiveHorizon == total_duration_sec + VISUAL_PREROLL_S

LiveElapse ==
    /\ Running
    /\ call.name = "tick" /\ call.wall = elapsed
    /\ \/ playback_rate # 0 /\ Now <= LiveHorizon
       \/ playback_rate = 0 /\ elapsed + LiveStepMs <= MaxWallSteps * WallStepMs
    /\ elapsed' = elapsed + LiveStepMs
    /\ call' = [name |-> "clock", arg |-> LiveStepMs, wall |-> elapsed + LiveStepMs,
                now_before |-> current_music_time(elapsed + LiveStepMs, playback_rate,
                                                  music_time_offset),
                rate_before |-> playback_rate, again |-> None]
    /\ pause_run' = RunAfter("other", self, view)
    /\ frame' = NoFrame
    /\ UNCHANGED << rollVars, scoreVars, player, viewVars, pass, memo, inputs >>

LiveInput ==
    /\ inputs < MaxLiveInputs
    /\ \/ SetRate
       \/ SpeedChanged
       \/ TogglePause
       \/ SeekTo
       \/ Forward
       \/ Rewind
       \/ Stop
       \/ Restart

LiveNext ==
    \/ LiveElapse
    \/ Tick
    \/ PageLoaded
    \/ LiveInput

\* the QTimer of the frame fires every 1000 / FPS ms for as long as the
\* application runs, and the wall clock does not stop
SpecLive == Init /\ [][LiveNext]_vars /\ WF_vars(Tick) /\ WF_vars(LiveElapse)

\* ================================== the loader functions on their own
\* The tempo map and the measure index are built from what a parser can
\* hand over, and the lookups are called with arguments from bounded sets.
MaxMarks == 2
MaxQl == 8
MaxDurQl == 3

MarkOffsets == { 0, 2, 4 }
MarkBpms == { 60, 120 }
Totals == { t \in 0..MaxQl : t % 4 = 0 } \cup { MaxQl }
PickupLens == { 1, 4 }

\* the metronome marks in iteration order; a mark is an element of the
\* score, so that no offset lies past highestTime
MarkLists(total) ==
    UNION { [1..n -> { m \in MarkOffsets \X MarkBpms : m[1] <= total }] : n \in 0..MaxMarks }

\* measures of four notated quarters, the first one sounding for first_len
\* quarters (a pickup when shorter than 4)
BarsFrom(first_len, total) ==
    LET n == IF total = 0 THEN 0
             ELSE IF total <= first_len THEN 1
             ELSE 1 + (total - first_len + 3) \div 4
    IN [k \in 1..n |-> Bar(k, IF k = 1 THEN 0 ELSE first_len + 4 * (k - 2), 4)]

LoaderScores ==
    { [marks |-> ms, highest_ql |-> total, notes |-> << >>,
       bars |-> BarsFrom(first_len, total),
       index_to_page |-> [k \in 1..Len(BarsFrom(first_len, total)) |-> 0],
       page_count |-> 1] :
      ms \in UNION { MarkLists(t) : t \in Totals }, total \in Totals, first_len \in PickupLens }

WellFormed(sc) == \A k \in 1..Len(sc.marks) : sc.marks[k][1] <= sc.highest_ql

NoScore ==
    [marks |-> << >>, highest_ql |-> 0, notes |-> << >>, bars |-> << >>,
     index_to_page |-> << >>, page_count |-> 1]

LookupQls == 0..(MaxQl + 2)
LookupSecs == { -VISUAL_PREROLL_S } \cup { k * Sec : k \in (-1)..(MaxQl + 1) }

\* result: << v >> for a returned v, << >> when the call raised
Lookup(name, arg, raised, result) ==
    [name |-> name, arg |-> arg, raised |-> raised, result |-> result]

\* the lists as the loader builds them, or empty lists handed to the lookups
LoaderInit ==
    \E sc \in { x \in LoaderScores : WellFormed(x) } \cup { NoScore } :
        LET segs == IF sc = NoScore THEN << >>
                    ELSE build_tempo_segments(sc.marks, sc.highest_ql)
        IN /\ elapsed = 0
           /\ music_time_offset = -VISUAL_PREROLL_S
           /\ playback_rate = DefaultRate
           /\ pre_pause_rate = DefaultRate
           /\ speed_spin = DefaultRate
           /\ last_bpm_shown = bpm_at_seconds(segs, 0)
           /\ score = sc
           /\ all_notes = << >>
           /\ tempo_segments = segs
           /\ total_duration_sec = IF segs # << >> THEN segs[Len(segs)].end_sec ELSE 0
           /\ spawn_queue = << >>
           /\ audio_queue = << >>
           /\ active_items = << >>
           /\ measures = IF sc = NoScore THEN << >> ELSE build_measure_times(sc.bars, segs)
           /\ index_to_page = sc.index_to_page
           /\ page_count = sc.page_count
           /\ html_ready = FALSE
           /\ current_page = 0
           /\ pending_sec = None
           /\ loading = TRUE
           /\ cursor = None
           /\ player = NoPlayer
           /\ call = Lookup("build", << >>, FALSE, None)
           /\ pass = None
           /\ frame = NoFrame
           /\ pause_run = NoRun
           /\ memo = NoMemo
           /\ inputs = 0

Looked(rec) ==
    /\ call' = rec
    /\ UNCHANGED << elapsed, rollVars, scoreVars, player, viewVars, pass, frame, pause_run,
                    memo, inputs >>

CallQlToSeconds ==
    \E ql \in LookupQls :
        IF ql_to_seconds_raises(tempo_segments, ql)
        THEN Looked(Lookup("ql_to_seconds", << ql >>, TRUE, None))
        ELSE Looked(Lookup("ql_to_seconds", << ql >>, FALSE,
                           << ql_to_seconds(tempo_segments, ql) >>))

CallQlDurationToSeconds ==
    \E start_ql \in 0..MaxQl, dur_ql \in 1..MaxDurQl :
        Looked(Lookup("ql_duration_to_seconds", << start_ql, dur_ql >>, FALSE,
                      << ql_duration_to_seconds(tempo_segments, start_ql, dur_ql) >>))

CallBpmAtSeconds ==
    \E sec \in LookupSecs :
        Looked(Lookup("bpm_at_seconds", << sec >>, FALSE,
                      << bpm_at_seconds(tempo_segments, sec) >>))

CallMeasureForTime ==
    \E sec \in LookupSecs :
        Looked(Lookup("measure_for_time", << sec >>, FALSE, << measure_for_time(sec) >>))

LoaderNext ==
    \/ CallQlToSeconds
    \/ CallQlDurationToSeconds
    \/ CallBpmAtSeconds
    \/ CallMeasureForTime

SpecLoader == LoaderInit /\ [][LoaderNext]_vars

\* ====================================================== the claims
InRange(t) == -VISUAL_PREROLL_S <= t /\ t <= total_duration_sec

\* C1: set_rate(r) leaves the music time of the instant of the call unchanged,
\* whether r is 0, is clamped, or the old rate was 0; so do the speed change and
\* toggle_pause, which go through it.
C1_SetRateKeepsNow ==
    call.name \in { "set_rate", "speed", "toggle_pause" } => Now = call.now_before

\* a clamped request, late on the wall clock, that changes a non-zero rate
C1_Witness ==
    /\ call.name = "set_rate" /\ call.arg > MaxRate /\ elapsed > 0
    /\ call.rate_before \notin { 0, MaxRate } /\ playback_rate = MaxRate

\* C2: for an in-range t and any rate, seek(t) followed at once by now() gives t.
C2_SeekThenNow ==
    (call.name \in SeekNames /\ InRange(call.arg)) => Now = call.arg

\* an in-range seek at a rate other than 1.0, late on the wall clock
C2_Witness ==
    /\ call.name = "seek" /\ InRange(call.arg) /\ elapsed > 0
    /\ playback_rate = MaxRate /\ Now = call.arg

\* C3: seek(t) sets the music time to t clamped into
\* [earliest_allowed, total_duration]; no seek leaves it outside that range.
C3_SeekClamped ==
    call.name \in SeekNames =>
        Now = Min(total_duration_sec, Max(-VISUAL_PREROLL_S, call.arg))

\* C4: pausing and resuming at the same wall time, with no seek in between,
\* by set_rate(0) and set_rate(r) or by toggle_pause twice, gives back the
\* music time of before the pause.
C4_PauseResumeKeepsNow ==
    (playback_rate # 0 /\ pause_run.mark # None /\ pause_run.mark[1] = elapsed)
        => Now = pause_run.mark[2]

\* resumed by set_rate at a rate that is clamped, late on the wall clock
C4_Witness ==
    /\ call.name = "set_rate" /\ call.rate_before = 0 /\ playback_rate = MinRate
    /\ pause_run.mark # None /\ pause_run.mark[1] = elapsed /\ elapsed > 0

\* C5: the playback rate is 0 or lies in [0.25, 2.0] in every reachable state.
C5_RateInRange ==
    playback_rate = 0 \/ (MinRate <= playback_rate /\ playback_rate <= MaxRate)

\* requests above and below the range have been clamped
C5_Witness ==
    \/ call.name = "set_rate" /\ call.arg > MaxRate /\ playback_rate = MaxRate
    \/ call.name = "set_rate" /\ call.arg \in 1..(MinRate - 1) /\ playback_rate = MinRate

Range(seq) == { seq[k] : k \in 1..Len(seq) }
NoDup(seq) == \A i, j \in 1..Len(seq) : i # j => seq[i] # seq[j]
Ascending(seq) == \A i, j \in 1..Len(seq) : i < j => seq[i] < seq[j]

\* the keys of the two queues, as the specification defines them
AudioKey(i) == all_notes[i].start + AudioLatency
SpawnKey(i) == all_notes[i].start - travel_time

\* C6: within one pass, under any interleaving of ticks, rate changes and pause
\* toggles, a note is an audio trigger at most once and a spawn at most once.
C6_AtMostOncePerPass == NoDup(pass.audio) /\ NoDup(pass.spawn)

\* a pass with several triggers and spawns, and inputs in between
C6_Witness ==
    /\ Len(pass.audio) >= 2 /\ Len(pass.spawn) >= 2 /\ inputs >= 2
    /\ call.name = "tick"

\* C7: after a seek to the (clamped) time t the audio queue is exactly the notes
\* of the sorted list with audio key >= t - eps, the spawn queue exactly those
\* with spawn key >= t - eps, both in list order; a second seek(t) at the same
\* wall time changes nothing.
C7_SeekRebuildsQueues ==
    call.name \in SeekNames =>
        /\ Ascending(audio_queue) /\ Ascending(spawn_queue)
        /\ \A i \in 1..Len(all_notes) :
              /\ i \in Range(audio_queue) <=> AudioKey(i) >= Now - eps
              /\ i \in Range(spawn_queue) <=> SpawnKey(i) >= Now - eps
        /\ call.again # None => self = call.again[1]

\* the same seek twice, after notes were consumed; a note that started eps
\* before the target is kept
C7_Witness ==
    /\ call.name = "seek" /\ call.again # None
    /\ Len(pass.audio0) < Len(all_notes)
    /\ \E i \in Range(audio_queue) : all_notes[i].start < Now
    /\ \E i \in 1..Len(all_notes) : i \notin Range(call.again[1].audio_queue)

\* the notes of the list whose key is due at the sampled time t, in list order
DueAudio(t) == SelectSeq([i \in 1..Len(all_notes) |-> i], LAMBDA i : AudioKey(i) <= t + eps)
DueSpawn(t) == SelectSeq([i \in 1..Len(all_notes) |-> i], LAMBDA i : SpawnKey(i) <= t + eps)

\* C8 as stated: with no seek, what has been emitted depends on the last
\* sampled music time alone (two runs that end at the same music time emitted
\* the same spawns and the same triggers, in the same order).
C8_Determinism ==
    (~pass.seeked /\ pass.last_now # None) =>
        /\ pass.spawn = DueSpawn(pass.last_now[1])
        /\ pass.audio = DueAudio(pass.last_now[1])

\* C8 as amended: the spawns depend on the last sampled music time alone, the
\* triggers on the last music time sampled while not paused.
C8_DeterminismWhilePlaying ==
    ~pass.seeked =>
        /\ pass.spawn = (IF pass.last_now = None THEN << >> ELSE DueSpawn(pass.last_now[1]))
        /\ pass.audio = (IF pass.last_playing_now = None THEN << >>
                         ELSE DueAudio(pass.last_playing_now[1]))

\* several samples, coarse and fine, some while paused, with notes emitted
C8_Witness ==
    /\ ~pass.seeked /\ Len(pass.audio) >= 1 /\ Len(pass.spawn) >= 2
    /\ pass.last_now # pass.last_playing_now /\ pass.last_playing_now # None

\* C9: a tick that runs while the rate is 0 emits no audio trigger and leaves
\* the audio queue as it was, even with a due note at its head.
C9_PausedTickKeepsAudio ==
    (call.name = "tick" /\ frame.rate = 0) =>
        /\ Kinds(frame.events, "audio") = {}
        /\ audio_queue = frame.audio_before

\* a paused tick with a due note at the head of the audio queue
C9_Witness ==
    /\ call.name = "tick" /\ frame.rate = 0 /\ audio_queue # << >>
    /\ AudioKey(Head(audio_queue)) <= frame.now

\* the paused ticks from the second on
LatePausedTick == call.name = "tick" /\ pause_run.count >= 2

FrozenTick ==
    /\ frame.now = pause_run.now
    /\ Kinds(frame.events, "audio") = {}
    /\ Kinds(frame.events, "spawn") = {}
    /\ frame.moved = {}

\* C10 as stated: while the rate is 0 and no seek occurs every tick sees the
\* same music time, and from the second paused tick on nothing is spawned or
\* triggered, no visual moves and the cursor (measure, time, page) stays
\* (stated here for a cursor that is on display at the second paused tick).
C10_PausedFreezes ==
    pause_run.count >= 2 =>
        /\ Now = pause_run.now
        /\ LatePausedTick => FrozenTick
        /\ pause_run.shown[1] # None => << cursor, current_page >> = pause_run.shown

\* C10 as amended: the same, but the displayed cursor and page may still be
\* replaced by the ones of the frozen music time, when a page load completes.
C10_PausedFreezesButLoads ==
    pause_run.count >= 2 =>
        /\ Now = pause_run.now
        /\ LatePausedTick => FrozenTick
        /\ cursor \in { pause_run.shown[1], CursorArgs(pause_run.now) }
        /\ current_page \in { pause_run.shown[2],
                              page_for_index(measure_for_time(pause_run.now)) }

\* a late paused tick, wall time having passed since the pause, with visuals
C10_Witness ==
    /\ LatePausedTick /\ active_items # << >>
    /\ pause_run.mark # None /\ elapsed > pause_run.mark[1]

\* the audio triggers of the last frame, as event records
AudioEvents == { frame.events[k] : k \in Kinds(frame.events, "audio") }

\* C11: a note's audio trigger is emitted only in a tick whose music time is
\* >= the note's audio key - eps; and after a seek to t < 0 followed by
\* set_rate(r), r # 0, the music time after w wall seconds is t + w * r, so it
\* reaches 0 after exactly -t / r wall seconds, and no note has fired since
\* the seek while the music time is still negative.
C11_NoEarlyTrigger ==
    /\ call.name = "tick" => \A e \in AudioEvents : frame.now >= AudioKey(e.note) - eps
    /\ memo.ramp # None =>
         LET ramp == memo.ramp[1]
         IN /\ Now = ramp.t + (elapsed - ramp.wall) * ramp.r * UsPerRateMs
            /\ Now < -eps => pass.audio = << >>

\* the tick -t / r wall seconds after seek(t), set_rate(r): the music time is 0
\* and the note that starts at 0 fires in it, not before
C11_Witness ==
    /\ call.name = "tick" /\ memo.ramp # None /\ frame.now = 0
    /\ elapsed > memo.ramp[1].wall
    /\ (elapsed - memo.ramp[1].wall) * memo.ramp[1].r * UsPerRateMs = -memo.ramp[1].t
    /\ \E e \in AudioEvents : AudioKey(e.note) = 0
    /\ Len(pass.audio) = Cardinality(AudioEvents)

\* the step of the frame an event belongs to, as the specification numbers them
StepOf(kind) ==
    CASE kind = "now" -> 1
      [] kind = "audio" -> 2
      [] kind = "spawn" -> 3
      [] kind = "position" -> 4
      [] kind = "release" -> 5
      [] kind = "cursor" -> 6

\* C12: in every frame the steps run in the order now(), audio drain, spawn
\* drain, position update, garbage collection, cursor/page update; the
\* releases of garbage collection come before the cursor update of the frame.
C12_FrameOrder ==
    call.name = "tick" =>
        \A i, j \in 1..Len(frame.events) :
            i < j => StepOf(frame.events[i].kind) <= StepOf(frame.events[j].kind)

\* C13: in every frame the audio triggers are issued first, one after the
\* other right after now() is read and before any spawn or position update:
\* no trigger waits for the one before it to finish sounding.
C13_AudioBeforeVisuals ==
    call.name = "tick" =>
        LET audio == Kinds(frame.events, "audio")
        IN /\ audio = 2..(1 + Cardinality(audio))
           /\ \A i \in audio :
                \A j \in Kinds(frame.events, "spawn") \cup Kinds(frame.events, "position") : i < j

\* a frame that triggers a chord, notes that sound for a while, and also
\* moves visuals
C13_Witness ==
    /\ call.name = "tick"
    /\ Cardinality(Kinds(frame.events, "audio")) >= 2
    /\ \A k \in Kinds(frame.events, "audio") : frame.events[k].val > 0
    /\ Kinds(frame.events, "position") # {}

EventsOf(kind) == { frame.events[k] : k \in Kinds(frame.events, kind) }
NotesOf(kind) == { e.note : e \in EventsOf(kind) }

\* where update_position puts the visual of note i at music time t
PositionAt(i, t) == -(all_notes[i].duration * YPerUs) + Max(0, t - SpawnKey(i)) * YPerUs

\* C14: a frame reads the music time once; the audio drain, the spawn drain,
\* the position updates and the cursor update all work with that one value,
\* however long the frame takes.
C14_OneNowPerFrame ==
    call.name = "tick" =>
        /\ Kinds(frame.events, "now") = { 1 } /\ frame.events[1].val = frame.now
        /\ \A i \in NotesOf("audio") : AudioKey(i) <= frame.now + eps
        /\ (frame.rate # 0 /\ audio_queue # << >>) =>
               AudioKey(Head(audio_queue)) > frame.now + eps
        /\ \A i \in NotesOf("spawn") : SpawnKey(i) <= frame.now + eps
        /\ spawn_queue # << >> => SpawnKey(Head(spawn_queue)) > frame.now + eps
        /\ \A e \in EventsOf("position") : e.val = PositionAt(e.note, frame.now)
        /\ \A e \in EventsOf("cursor") : e.val = frame.now
        /\ frame.emitted = frame.now
        /\ pending_sec = << frame.now >> \/ cursor = CursorArgs(frame.now)

\* a frame at a running clock that triggers, spawns, moves and draws the cursor
C14_Witness ==
    /\ call.name = "tick" /\ frame.rate # 0 /\ elapsed > 0
    /\ NotesOf("audio") # {} /\ NotesOf("spawn") # {} /\ NotesOf("position") # {}
    /\ frame.drawn /\ cursor = CursorArgs(frame.now)

Mutations == { "set_rate", "speed", "toggle_pause" } \cup SeekNames

\* the frame that runs right after a transport mutation
FrameAfterMutation ==
    call.name = "tick" /\ frame.after # None /\ frame.after[1].name \in Mutations

\* C15: a frame that follows a transport mutation sees all of it: after a rate
\* change or pause toggle its music time is the one of before the mutation,
\* after a seek it is the seek's (clamped) target, and it drains queues that
\* have been rebuilt for that target and moves only visuals spawned since.
C15_FrameSeesWholeMutation ==
    FrameAfterMutation =>
        LET m == frame.after[1]
        IN /\ frame.rate = playback_rate
           /\ m.name \notin SeekNames => frame.now = m.now_before
           /\ m.name \in SeekNames =>
                /\ frame.now = SeekClamp(m.arg)
                /\ Range(frame.audio_before) =
                       { i \in 1..Len(all_notes) : AudioKey(i) >= frame.now - eps }
                /\ NotesOf("spawn") \cup Range(spawn_queue) =
                       { i \in 1..Len(all_notes) : SpawnKey(i) >= frame.now - eps }
                /\ NotesOf("position") \subseteq NotesOf("spawn")

\* the frame right after a seek made late on the wall clock, at a rate other
\* than 1.0; the rebuild has left out a note, the frame spawns and moves others
C15_Witness ==
    /\ FrameAfterMutation /\ elapsed > 0 /\ frame.rate \notin { 0, DefaultRate }
    /\ frame.after[1].name \in { "seek", "forward", "rewind" }
    /\ NotesOf("position") # {}
    /\ Cardinality(NotesOf("spawn")) + Len(spawn_queue) < Len(all_notes)

\* C16: a cursor position goes out only to a page that has finished loading
\* and is the page of the cursor's measure; while a page change is under way
\* nothing is drawn.
C16_CursorOnItsPage ==
    frame.drawn =>
        /\ html_ready /\ ~loading
        /\ cursor # None /\ page_for_index(cursor[1]) = current_page

\* the cursor is drawn on the second page once its load has completed
C16_Witness ==
    /\ call.name = "loaded" /\ frame.drawn /\ current_page = 1
    /\ page_for_index(cursor[1]) = 1

\* where a visual starts: its rect is drawn with the top at -bar_height
InitialY(i) == -(all_notes[i].duration * YPerUs)

\* C17 as stated: after the position update of a tick every active visual is
\* at initial_offset + (now - spawn key) * scroll_speed.
C17_PositionIsPure ==
    call.name = "tick" =>
        \A e \in EventsOf("position") :
            e.val = InitialY(e.note) + (frame.now - SpawnKey(e.note)) * YPerUs

\* C17 as amended: every active visual is at
\* initial_offset + max(0, now - spawn key) * scroll_speed, the spawn time
\* being the note's spawn key and not the time of the tick that spawned it,
\* whatever ticks, rate changes and pauses there were since the spawn.
C17_PositionIsPureFromSpawn ==
    /\ \A k \in 1..Len(active_items) :
          active_items[k].spawn_time_music = SpawnKey(active_items[k].note)
    /\ call.name = "tick" =>
          /\ \A e \in EventsOf("position") :
                e.val = InitialY(e.note) + Max(0, frame.now - SpawnKey(e.note)) * YPerUs
          /\ \A k \in 1..Len(active_items) :
                active_items[k].y = PositionAt(active_items[k].note, frame.now)

\* a visual spawned late (after its spawn key) in an earlier frame and moved
\* again after the rate was changed
C17_Witness ==
    /\ call.name = "tick" /\ inputs >= 1 /\ frame.rate # DefaultRate
    /\ \E k \in 1..Len(active_items) :
          /\ active_items[k].note \notin NotesOf("spawn")
          /\ active_items[k].note \in frame.moved
          /\ active_items[k].y > InitialY(active_items[k].note)

\* C18: at the end of every tick no active visual is past the cutoff; a visual
\* released by garbage collection is not repositioned and not released again
\* by a later tick, a release happens once, and a seek releases every visual:
\* the frame after it moves only visuals it has spawned itself.
C18_ReleasedStaysReleased ==
    /\ call.name \in SeekNames => active_items = << >>
    /\ call.name = "tick" =>
          /\ \A k \in 1..Len(active_items) : active_items[k].y <= cutoff_y
          /\ NotesOf("position") \cap frame.released_before = {}
          /\ NotesOf("release") \cap frame.released_before = {}
          /\ Cardinality(Kinds(frame.events, "release")) = Cardinality(NotesOf("release"))
          /\ frame.after[1].name \in SeekNames => NotesOf("position") \subseteq NotesOf("spawn")

\* a tick that moves the remaining visuals after another one was released
C18_Witness ==
    /\ call.name = "tick" /\ frame.released_before # {}
    /\ NotesOf("position") # {} /\ frame.moved = {}
    /\ \E k \in 1..Len(active_items) : active_items[k].y > 0

\* C19: toggle_pause turns a playing transport into a paused one and a paused
\* into a playing one; pausing stores the rate, and a resume by toggle that no
\* speed change, stop or set_rate has come before plays at the rate that the
\* pausing toggle found.
C19_ToggleRemembersRate ==
    call.name = "toggle_pause" =>
        /\ (call.rate_before = 0) # (playback_rate = 0)
        /\ call.rate_before # 0 => pre_pause_rate = call.rate_before
        /\ (call.rate_before = 0 /\ memo.paused_at # None) =>
               playback_rate = memo.paused_at[1]

\* paused by toggle at a rate other than 1.0 and resumed by toggle
C19_Witness ==
    /\ call.name = "toggle_pause" /\ call.rate_before = 0
    /\ memo.paused_at # None /\ memo.paused_at[1] # DefaultRate
    /\ playback_rate = memo.paused_at[1]

\* C20: every audio trigger asks for duration_sec / rate wall seconds, rate
\* being the non-zero rate of the tick that emits it, and never for less than 0.
C20_TriggerDuration ==
    call.name = "tick" =>
        \A e \in EventsOf("audio") :
            /\ frame.rate # 0 /\ frame.rate = playback_rate
            /\ e.val * frame.rate = all_notes[e.note].duration * RateScale
            /\ e.val >= 0

\* triggers at double speed ask for half the note's length, at quarter speed
\* for four times
C20_Witness ==
    /\ call.name = "tick"
    /\ \E e \in EventsOf("audio") :
          \/ frame.rate = MaxRate /\ 2 * e.val = all_notes[e.note].duration
          \/ frame.rate = MinRate /\ e.val = 4 * all_notes[e.note].duration

\* the queued notes that are due at the music time of the last frame
DueIn(queue, Key(_)) == { i \in Range(queue) : Key(i) <= frame.now + eps }
HeadNotDue(queue, Key(_)) == queue = << >> \/ Key(Head(queue)) > frame.now + eps

\* C21: when the audio collaborator raises for one due note, the other notes
\* due in the frame are still triggered, the spawn, position, garbage
\* collection and cursor steps of the frame still run, and afterwards both
\* queues hold exactly the notes that are not yet due.
C21_FailureKeepsScheduling ==
    call.name = "tick_failed" =>
        /\ NotesOf("audio") \cup NotesOf("audio_failed") = DueIn(frame.audio_before, AudioKey)
        /\ NotesOf("spawn") = DueIn(frame.spawn_before, SpawnKey)
        /\ Kinds(frame.events, "cursor") # {}
        /\ HeadNotDue(audio_queue, AudioKey) /\ HeadNotDue(spawn_queue, SpawnKey)

\* ===================================== the MIDI player on its own
\* play_note is called with pitches and wall durations from bounded sets,
\* the wall clock advances and the note-off timers fire when they are due.
MaxPlays == 2
MaxPlayerSteps == 4
PlayerStepMs == MsPerSec \div 2
Pitches == { 60, 62 }
DurationsMs == { MsPerSec, 2 * MsPerSec }

Silent == [p \in Pitches |-> None]

\* fs.noteon(0, midi_num, velocity); QTimer.singleShot(int(duration * 1000),
\* lambda: fs.noteoff(0, midi_num)); the synth keeps one voice per key, a
\* note-on on a sounding key takes the key over
play_note(pl, el, midi_num, duration_ms) ==
    LET id == Len(pl.notes) + 1
    IN [on |-> [pl.on EXCEPT ![midi_num] = << id >>],
        timers |-> pl.timers \cup
                     { [pitch |-> midi_num, due |-> el + duration_ms, id |-> id,
                        fired |-> FALSE] },
        notes |-> Append(pl.notes, [pitch |-> midi_num, at |-> el, on_at |-> el,
                                    dur |-> duration_ms, off |-> None])]

\* the timer's lambda: fs.noteoff(0, midi_num) releases the voice on the key,
\* whichever play_note started it
noteoff(pl, el, tm) ==
    [on |-> [pl.on EXCEPT ![tm.pitch] = None],
     timers |-> (pl.timers \ { tm }) \cup { [tm EXCEPT !.fired = TRUE] },
     notes |-> IF pl.on[tm.pitch] = None THEN pl.notes
               ELSE [pl.notes EXCEPT ![pl.on[tm.pitch][1]].off =
                         << [at |-> el, by |-> tm.id] >>]]

PlayerInit ==
    /\ elapsed = 0
    /\ music_time_offset = -VISUAL_PREROLL_S
    /\ playback_rate = DefaultRate
    /\ pre_pause_rate = DefaultRate
    /\ speed_spin = DefaultRate
    /\ last_bpm_shown = 60
    /\ score = NoScore
    /\ all_notes = << >>
    /\ tempo_segments = << >>
    /\ total_duration_sec = 0
    /\ spawn_queue = << >>
    /\ audio_queue = << >>
    /\ active_items = << >>
    /\ measures = << >>
    /\ index_to_page = << >>
    /\ page_count = 1
    /\ html_ready = FALSE
    /\ current_page = 0
    /\ pending_sec = None
    /\ loading = TRUE
    /\ cursor = None
    /\ player = [NoPlayer EXCEPT !.on = Silent]
    /\ call = [name |-> "init", arg |-> << >>]
    /\ pass = None
    /\ frame = NoFrame
    /\ pause_run = NoRun
    /\ memo = NoMemo
    /\ inputs = 0

PlayerKeeps ==
    UNCHANGED << rollVars, scoreVars, viewVars, pass, frame, pause_run, memo, inputs >>

\* _trigger_audio_onsets calls play_note
PlayNote ==
    \E midi_num \in Pitches, duration_ms \in DurationsMs :
        /\ Len(player.notes) < MaxPlays
        /\ player' = play_note(player, elapsed, midi_num, duration_ms)
        /\ call' = [name |-> "play_note", arg |-> << midi_num, duration_ms >>]
        /\ UNCHANGED elapsed
        /\ PlayerKeeps

\* a single-shot timer that is due fires
TimerFires ==
    \E tm \in player.timers :
        /\ ~tm.fired /\ tm.due <= elapsed
        /\ player' = noteoff(player, elapsed, tm)
        /\ call' = [name |-> "noteoff", arg |-> << tm.pitch, tm.id >>]
        /\ UNCHANGED elapsed
        /\ PlayerKeeps

\* wall time passes, up to the next timer that is due
PlayerClock ==
    /\ elapsed + PlayerStepMs <= MaxPlayerSteps * PlayerStepMs
    /\ \A tm \in player.timers : tm.fired \/ tm.due >= elapsed + PlayerStepMs
    /\ elapsed' = elapsed + PlayerStepMs
    /\ call' = [name |-> "clock", arg |-> << >>]
    /\ UNCHANGED player
    /\ PlayerKeeps

PlayerNext ==
    \/ PlayNote
    \/ TimerFires
    \/ PlayerClock

SpecPlayer == PlayerInit /\ [][PlayerNext]_vars

\* ------------------------------------------------ the loader's claims
\* the tempo map is the one build_tempo_segments returns for the score
Built == score # NoScore /\ tempo_segments = build_tempo_segments(score.marks, score.highest_ql)

Returned(name) == call.name = name /\ ~call.raised

\* C22: the segments returned by build are contiguous and ordered: the
\* first one starts at quarter 0 and second 0, every segment has
\* start_ql <= end_ql, start_sec <= end_sec and bpm > 0, and each segment ends,
\* in quarters and in seconds, where the next one starts.
C22_SegmentsContiguous ==
    Built =>
        /\ tempo_segments # << >>
        /\ tempo_segments[1].start_ql = 0 /\ tempo_segments[1].start_sec = 0
        /\ \A i \in 1..Len(tempo_segments) :
              /\ tempo_segments[i].start_ql <= tempo_segments[i].end_ql
              /\ tempo_segments[i].start_sec <= tempo_segments[i].end_sec
              /\ tempo_segments[i].bpm > 0
        /\ \A i \in 1..(Len(tempo_segments) - 1) :
              /\ tempo_segments[i].end_ql = tempo_segments[i + 1].start_ql
              /\ tempo_segments[i].end_sec = tempo_segments[i + 1].start_sec

\* a map of three segments: the one synthesized at offset 0 and two from marks
C22_Witness ==
    /\ Built /\ Len(tempo_segments) = 3
    /\ tempo_segments[2].bpm # tempo_segments[3].bpm
    /\ call.name = "ql_to_seconds"

\* the construction the tempo map is specified by: the offsets that carry a
\* mark, and 0; for each the bpm of its first mark, for an unmarked 0 the bpm
\* of the earliest offset (60 without marks); seconds accumulated from 0
RefOffsets(marks) == { marks[k][1] : k \in DOMAIN marks } \cup { 0 }
RefMarked(marks, off) == { k \in DOMAIN marks : marks[k][1] = off }
RefFirst(marks, off) ==
    marks[CHOOSE k \in RefMarked(marks, off) : \A j \in RefMarked(marks, off) : k <= j][2]
RefNth(S, n) == CHOOSE x \in S : Cardinality({ y \in S : y < x }) = n - 1
RefBpm(marks, off) ==
    IF RefMarked(marks, off) # {} THEN RefFirst(marks, off)
    ELSE IF marks = << >> THEN 60
    ELSE RefFirst(marks, RefNth(RefOffsets(marks) \ { 0 }, 1))
RefEndQl(marks, total, n) ==
    IF n < Cardinality(RefOffsets(marks)) THEN RefNth(RefOffsets(marks), n + 1) ELSE total
RefLength(marks, total, n) ==
    ((RefEndQl(marks, total, n) - RefNth(RefOffsets(marks), n)) * 60 * Sec)
        \div RefBpm(marks, RefNth(RefOffsets(marks), n))
RECURSIVE RefStartSec(_, _, _)
RefStartSec(marks, total, n) ==
    IF n = 1 THEN 0
    ELSE RefStartSec(marks, total, n - 1) + RefLength(marks, total, n - 1)
RefSegments(marks, total) ==
    [n \in 1..Cardinality(RefOffsets(marks)) |->
        [start_ql |-> RefNth(RefOffsets(marks), n),
         end_ql |-> RefEndQl(marks, total, n),
         bpm |-> RefBpm(marks, RefNth(RefOffsets(marks), n)),
         start_sec |-> RefStartSec(marks, total, n),
         end_sec |-> RefStartSec(marks, total, n) + RefLength(marks, total, n)]]

TwoTempoMap ==
    << [start_ql |-> 0, end_ql |-> 4, bpm |-> 60, start_sec |-> 0, end_sec |-> 4 * Sec],
       [start_ql |-> 4, end_ql |-> 8, bpm |-> 120, start_sec |-> 4 * Sec,
        end_sec |-> 6 * Sec] >>

\* C23: the tempo map build returns is the reference construction: first mark
\* of an offset wins, ascending offsets, a mark at 0 synthesized from the
\* earliest mark's bpm (60 bpm without marks), each segment lasting
\* quarters * 60 / bpm seconds accumulated from 0, the last segment ending
\* at the score length.
C23_BuildIsReference ==
    Built => tempo_segments = RefSegments(score.marks, score.highest_ql)

\* marks {(0, 60), (4, 120)} and 8 quarters give [0, 4) at 60 bpm over 0..4 s
\* and [4, 8) at 120 bpm over 4..6 s
C23_Witness ==
    /\ Built
    /\ score.marks = << <<0, 60>>, <<4, 120>> >> /\ score.highest_ql = 8
    /\ tempo_segments = TwoTempoMap

\* C24: ql_to_seconds is non-decreasing on a built tempo map: a returned value
\* is at least the value of every smaller quarter and at most the value of
\* every larger one, across segment boundaries and past the last segment.
C24_ToSecondsMonotone ==
    Built /\ Returned("ql_to_seconds") =>
        \A q \in LookupQls :
            /\ q <= call.arg[1] => ql_to_seconds(tempo_segments, q) <= call.result[1]
            /\ call.arg[1] <= q => call.result[1] <= ql_to_seconds(tempo_segments, q)

\* a lookup past the end of a map of two tempi
C24_Witness ==
    /\ Built /\ Returned("ql_to_seconds")
    /\ tempo_segments = TwoTempoMap
    /\ call.arg[1] > tempo_segments[2].end_ql

Contains(seg, ql) == seg.start_ql <= ql /\ ql < seg.end_ql
LastSegment == tempo_segments[Len(tempo_segments)]

\* C25: on a built tempo map ql_to_seconds never fails; it returns start_sec +
\* (ql - start_ql) * 60 / bpm of the segment that contains ql, and past the
\* last segment the last segment's end_sec + (ql - end_ql) * 60 / bpm.
C25_ToSecondsFormula ==
    Built /\ call.name = "ql_to_seconds" =>
        /\ ~call.raised
        /\ \A i \in 1..Len(tempo_segments) :
              Contains(tempo_segments[i], call.arg[1]) =>
                  call.result[1] = tempo_segments[i].start_sec
                      + ((call.arg[1] - tempo_segments[i].start_ql) * 60 * Sec)
                            \div tempo_segments[i].bpm
        /\ call.arg[1] >= LastSegment.end_ql =>
              call.result[1] = LastSegment.end_sec
                  + ((call.arg[1] - LastSegment.end_ql) * 60 * Sec) \div LastSegment.bpm
        /\ \/ \E i \in 1..Len(tempo_segments) : Contains(tempo_segments[i], call.arg[1])
           \/ call.arg[1] >= LastSegment.end_ql

\* to_seconds(6) = 5.0 s under the two-tempo map
C25_Witness ==
    /\ Built /\ tempo_segments = TwoTempoMap
    /\ call.name = "ql_to_seconds" /\ call.arg = << 6 >> /\ call.result = << 5 * Sec >>

\* the seconds of the part of [a, b) that lies in the segments from i on
RECURSIVE OverlapSeconds(_, _, _)
OverlapSeconds(i, a, b) ==
    IF i > Len(tempo_segments) THEN 0
    ELSE (Max(0, Min(b, tempo_segments[i].end_ql) - Max(a, tempo_segments[i].start_ql))
              * 60 * Sec) \div tempo_segments[i].bpm
         + OverlapSeconds(i + 1, a, b)

\* C26: ql_duration_to_seconds(start, dur) is the sum over the segments of the
\* overlap of [start, start + dur) with the segment times 60 / bpm; for an
\* interval inside the map that is to_seconds(start + dur) - to_seconds(start).
C26_DurationIsOverlapSum ==
    Built /\ Returned("ql_duration_to_seconds") =>
        /\ call.result[1] = OverlapSeconds(1, call.arg[1], call.arg[1] + call.arg[2])
        /\ call.arg[1] + call.arg[2] <= LastSegment.end_ql =>
              call.result[1] = ql_to_seconds(tempo_segments, call.arg[1] + call.arg[2])
                                   - ql_to_seconds(tempo_segments, call.arg[1])

\* (3, 3) crosses the tempo change of the two-tempo map: 1.0 s + 1.0 s
C26_Witness ==
    /\ Built /\ tempo_segments = TwoTempoMap
    /\ call.name = "ql_duration_to_seconds"
    /\ call.arg = << 3, 3 >> /\ call.result = << 2 * Sec >>

\* C27: for every sec, negative ones included, bpm_at_seconds returns the bpm
\* of the segment with start_sec <= sec < end_sec, or the last segment's bpm
\* when sec is at or past the total duration.
C27_BpmAtIsSegmentOrLast ==
    Built /\ Returned("bpm_at_seconds") =>
        \/ \E i \in 1..Len(tempo_segments) :
              /\ tempo_segments[i].start_sec <= call.arg[1]
              /\ call.arg[1] < tempo_segments[i].end_sec
              /\ call.result[1] = tempo_segments[i].bpm
        \/ /\ call.arg[1] >= LastSegment.end_sec
           /\ call.result[1] = LastSegment.bpm

InMeasure(m, sec) == m.start_sec <= sec /\ sec < m.end_sec

\* C28: on a non-empty measure list measure_for_time returns a valid 0-based
\* index: that of a measure with start_sec <= sec < end_sec when there is one,
\* 0 below the first measure and the last index at or above the last
\* measure's end.
C28_MeasureForTime ==
    measures # << >> /\ Returned("measure_for_time") =>
        /\ call.result[1] \in 0..(Len(measures) - 1)
        /\ (\E i \in 1..Len(measures) : InMeasure(measures[i], call.arg[1]))
              => InMeasure(measures[call.result[1] + 1], call.arg[1])
        /\ call.arg[1] < measures[1].start_sec => call.result[1] = 0
        /\ call.arg[1] >= measures[Len(measures)].end_sec
              => call.result[1] = Len(measures) - 1

\* a time at or past the end of the last of three measures
C28_Witness ==
    /\ Len(measures) = 3 /\ Returned("measure_for_time")
    /\ call.arg[1] >= measures[3].end_sec /\ call.result = << 2 >>

\* C29: the lookups on an empty tempo map or measure list never fail and
\* return the default: ql_to_seconds 0, bpm_at_seconds the default bpm,
\* measure_for_time index 0.
C29_EmptyLookupsReturnDefaults ==
    /\ tempo_segments = << >> /\ call.name = "ql_to_seconds"
          => ~call.raised /\ call.result = << 0 >>
    /\ tempo_segments = << >> /\ call.name = "bpm_at_seconds"
          => ~call.raised /\ call.result = << 60 >>
    /\ measures = << >> /\ call.name = "measure_for_time"
          => ~call.raised /\ call.result = << 0 >>

\* the notes of the last frame's events of one kind, in the order emitted
IsKind(e, kind) == e.kind = kind
EmittedNotes(kind) ==
    LET es == SelectSeq(frame.events, LAMBDA e : IsKind(e, kind))
    IN [k \in 1..Len(es) |-> es[k].note]
DueNotes(queue, Key(_)) == SelectSeq(queue, LAMBDA i : Key(i) <= frame.now + eps)

\* C30: a tick emits from a queue exactly the queued notes with key <= now +
\* eps, in queue order and from the head, so that afterwards the queue is
\* empty or its head has key > now + eps: the spawn queue in every tick, the
\* audio queue in every tick with a rate other than 0.
C30_PopWhileDue ==
    call.name = "tick" =>
        /\ EmittedNotes("spawn") = DueNotes(frame.spawn_before, SpawnKey)
        /\ frame.spawn_before = EmittedNotes("spawn") \o spawn_queue
        /\ HeadNotDue(spawn_queue, SpawnKey)
        /\ frame.rate # 0 =>
              /\ EmittedNotes("audio") = DueNotes(frame.audio_before, AudioKey)
              /\ frame.audio_before = EmittedNotes("audio") \o audio_queue
              /\ HeadNotDue(audio_queue, AudioKey)

\* a tick that pops both notes of a chord from the audio queue
C30_Witness ==
    /\ call.name = "tick" /\ frame.rate # 0
    /\ Len(EmittedNotes("audio")) >= 2
    /\ Len(frame.audio_before) = Len(audio_queue) + 2

\* the notes from the k-th on, in the order of the time-sorted list
SuffixFrom(k) == [j \in 1..(Len(all_notes) - k + 1) |-> k + j - 1]
IsSuffix(queue) == \E k \in 1..(Len(all_notes) + 1) : queue = SuffixFrom(k)
AscendingKeys(queue, Key(_)) ==
    \A i, j \in 1..Len(queue) : i < j => Key(queue[i]) <= Key(queue[j])

\* C31: in every reachable state each of the two queues is a contiguous suffix
\* of the time-sorted note list, hence ascending in key and without duplicates.
C31_QueuesAreSuffixes ==
    /\ IsSuffix(spawn_queue) /\ IsSuffix(audio_queue)
    /\ AscendingKeys(spawn_queue, SpawnKey) /\ AscendingKeys(audio_queue, AudioKey)
    /\ NoDup(spawn_queue) /\ NoDup(audio_queue)

\* after a seek into the score and a tick the two queues are different
\* suffixes, neither the whole list
C31_Witness ==
    /\ pass.seeked /\ call.name = "tick"
    /\ Len(audio_queue) < Len(all_notes) /\ audio_queue # << >>
    /\ Len(spawn_queue) < Len(audio_queue)

\* C32: whenever a tick emits the audio trigger of a note, the visual of that
\* note has been spawned in the same pass (since the start or the last seek),
\* in an earlier tick or in this one.
C32_SoundHasVisual ==
    call.name = "tick" => NotesOf("audio") \subseteq Range(pass.spawn)

\* C33: after a tick at music time t and a seek to t at the same wall time,
\* the rebuilt queues hold no note the tick or an earlier one had emitted, and
\* the ticks that follow emit no such note again.
C33_SeekDoesNotRefire ==
    /\ pass.before.audio \cap (Range(audio_queue) \cup Range(pass.audio)) = {}
    /\ pass.before.spawn \cap (Range(spawn_queue) \cup Range(pass.spawn)) = {}

RateNames == { "set_rate", "speed", "toggle_pause" }

\* C34: set_rate, a speed change and toggle_pause leave both queues and the
\* active visuals as they are; seek, forward and rewind leave the rate and the
\* remembered resume rate as they are; no step changes the time-sorted note
\* list.
C34_FrameConditions ==
    [][/\ call'.name \in RateNames =>
            /\ spawn_queue' = spawn_queue
            /\ audio_queue' = audio_queue
            /\ active_items' = active_items
       /\ call'.name \in { "seek", "forward", "rewind" } =>
            /\ playback_rate' = playback_rate
            /\ pre_pause_rate' = pre_pause_rate
       /\ all_notes' = all_notes]_vars

\* a pause with visuals on the scene and a partly drained audio queue
C34_Witness ==
    /\ call.name = "toggle_pause" /\ playback_rate = 0
    /\ active_items # << >>
    /\ audio_queue # << >> /\ Len(audio_queue) < Len(all_notes)

\* the lower edge of a bar: its y plus its height, duration * SCROLL_SPEED
LowerEdge(item) == item.y + all_notes[item.note].duration * YPerUs

\* C35: after the position update of a tick the lower edge of a spawned bar is
\* at the trigger line exactly when the music time of the tick is the note's
\* start, whichever tick spawned it and whatever rate changes and pauses came
\* since; with no latency compensation that is the note's audio key.
C35_BarMeetsLineAtStart ==
    call.name = "tick" =>
        \A k \in 1..Len(active_items) :
            /\ LowerEdge(active_items[k]) = target_y
                  <=> frame.now = all_notes[active_items[k].note].start
            /\ AUDIO_LATENCY_MS = 0 =>
                  AudioKey(active_items[k].note) = all_notes[active_items[k].note].start

\* a tick at the start of a note whose bar is on the scene, after a pause
\* or a rate change
C35_Witness ==
    /\ call.name = "tick" /\ inputs > 0
    /\ \E k \in 1..Len(active_items) :
          /\ frame.now = all_notes[active_items[k].note].start
          /\ LowerEdge(active_items[k]) = target_y

\* C36: a speed change that arrives while paused leaves the transport paused
\* and the music time where it is; the speed is remembered, and the next
\* toggle_pause resumes at that speed, clamped to [0.25, 2.0], not at the rate
\* that was in force before the pause.
C36_SpeedWhilePaused ==
    /\ call.name = "speed" /\ call.rate_before = 0 =>
          /\ playback_rate = 0
          /\ Now = call.now_before
          /\ memo.asked = << call.arg >>
    /\ call.name = "toggle_pause" /\ call.rate_before = 0 /\ memo.asked # None =>
          /\ playback_rate = ClampRate(memo.asked[1])
          /\ Now = call.now_before

\* pause at the initial rate 1.0, ask for 3.0 while paused, resume: the
\* transport plays at 2.0
C36_Witness ==
    /\ call.name = "toggle_pause" /\ call.rate_before = 0
    /\ inputs = 3 /\ memo.asked = << 3 * RateScale >>
    /\ playback_rate = MaxRate

AtTheStart ==
    /\ Now = -VISUAL_PREROLL_S
    /\ active_items = << >>
    /\ spawn_queue = SuffixFrom(1) /\ audio_queue = SuffixFrom(1)

\* C37: after Stop the transport is paused at the negative pre-roll with no
\* visual active and both queues holding the whole time-sorted note list;
\* after Restart the same holds with a rate other than 0 within [0.25, 2.0],
\* the speed the spin shows.
C37_StopAndRestart ==
    /\ call.name = "stop" => playback_rate = 0 /\ AtTheStart
    /\ call.name = "restart" =>
          /\ playback_rate \in MinRate..MaxRate /\ playback_rate = speed_spin
          /\ AtTheStart

\* Stop while playing past the first note, with bars on the scene before
C37_Witness ==
    /\ call.name = "stop" /\ call.rate_before # 0 /\ call.now_before >= 0
    /\ playback_rate = 0 /\ AtTheStart

PageOf(sec) == page_for_index(measure_for_time(sec))

\* C39: a music time that arrives while a page is loading is not sent to the
\* page and replaces the pending one; when the load finishes, the cursor is
\* placed for the pending time, or the page of that time is loaded with the
\* time still pending; a load that finishes with nothing pending places no
\* cursor.
C39_PendingTime ==
    /\ loading => ~html_ready
    /\ call.name = "tick" /\ ~html_ready =>
          ~frame.drawn /\ pending_sec = << frame.emitted >>
    /\ call.name = "loaded" /\ frame.pending_before = None =>
          ~frame.drawn /\ html_ready /\ pending_sec = None
    /\ call.name = "loaded" /\ frame.pending_before # None =>
          /\ current_page = PageOf(frame.pending_before[1])
          /\ IF html_ready
             THEN /\ frame.drawn /\ cursor = CursorArgs(frame.pending_before[1])
                  /\ pending_sec = None
             ELSE /\ ~frame.drawn /\ loading
                  /\ pending_sec = frame.pending_before

\* a load finishes and the cursor is placed for a time that a seek and a tick
\* made pending while the page was loading
C39_Witness ==
    /\ call.name = "loaded" /\ html_ready /\ frame.drawn
    /\ frame.pending_before = << Sec + eps >>
    /\ cursor = CursorArgs(Sec + eps)

\* ------------------------------------------------- the player's claim
TimersOf(id) == { tm \in player.timers : tm.id = id }

\* C40: play_note issues the note-on at once and starts exactly one note-off
\* timer, for the same pitch and the requested duration; a note is not
\* silenced by the note-off of an earlier note of the same pitch before its
\* own duration has elapsed.
C40_NoteOffSparesLaterNote ==
    \A id \in 1..Len(player.notes) :
        /\ player.notes[id].on_at = player.notes[id].at
        /\ Cardinality(TimersOf(id)) = 1
        /\ \A tm \in TimersOf(id) :
              /\ tm.pitch = player.notes[id].pitch
              /\ tm.due = player.notes[id].at + player.notes[id].dur
        /\ player.notes[id].off # None =>
              player.notes[id].off[1].at >= player.notes[id].at + player.notes[id].dur

\* ------------------------------------------------ the progress claim
\* both queues and the scene are empty, every note queued at the start of the
\* pass has been triggered and spawned, every spawned bar has been released
Drained ==
    /\ audio_queue = << >> /\ spawn_queue = << >> /\ active_items = << >>
    /\ Range(pass.audio) = Range(pass.audio0)
    /\ Range(pass.spawn) = Range(pass.spawn0)
    /\ pass.released = Range(pass.spawn)

\* C38: if the ticks keep coming, the rate is from some moment on never 0 and
\* no further seek happens, then every queued note is triggered and spawned
\* and every bar is released: both queues and the active visuals become and
\* stay empty.
C38_Progress == <>[](playback_rate # 0) => <>[]Drained

\* everything has been played after an input, with notes triggered, spawned
\* and released in the pass
C38_Witness ==
    /\ Drained /\ inputs > 0 /\ playback_rate # 0
    /\ Len(pass.audio) = Len(all_notes) /\ pass.released # {}

====
